---- MODULE Spec2Model ----
(***************************************************************************)
(* Sale lifecycle of the POS application: the record store (products and   *)
(* sales), the service calls createSale / updateSale / completeSale /      *)
(* cancelSale, and the Sales view handlers of each browser session that    *)
(* drive them.                                                             *)
(*                                                                         *)
(* Money is counted in thousandths of the currency unit, so the code's     *)
(* tolerances 0.05 and 0.001 are the integers 50 and 1.  completeSale      *)
(* multiplies unit prices by the fraction (S - D) / S; a unit price and a  *)
(* line total are therefore kept as exact fractions: the fields unitPrice  *)
(* and total of an item are numerators over the item's field den.          *)
(* Floating-point rounding of that product is not modelled.                *)
(*                                                                         *)
(* Every call into the record store is one step; the steps of calls made   *)
(* by different sessions interleave freely.  A session has at most one     *)
(* call in flight (pc, call) and a handler's synchronous part is taken     *)
(* together with its first store call.  A view copies a sale into its cart *)
(* when the sale is opened and does not follow later changes of the row.   *)
(*                                                                         *)
(* The item edit dialog keeps the position of the line it was opened on;   *)
(* confirming it after the cart got shorter by more than one line would    *)
(* leave a hole in the cart array, and that case is not modelled.  Of the  *)
(* store's failures only the failing stock write of completeSale is        *)
(* modelled (SpecFault): the store client returns the error in its result  *)
(* and does not throw.                                                     *)
(*                                                                         *)
(* Nine specifications share the actions: Spec (two sessions, the whole    *)
(* view, a small universe), SpecStore and SpecFault (a seeded store and    *)
(* the service calls), SpecStoreNoFailure (SpecStore without the steps in  *)
(* which completeSale fails on the stock), SpecManagers (the same store    *)
(* under two managers, c1 and c3, who cancel sales), SpecCart (one         *)
(* session: cart, edit dialog, discount), SpecPay (one session: cart,      *)
(* discount, payment fields), SpecDiscount (one session: cart, edit        *)
(* dialog and the fields of the discount dialog) and SpecInstallments      *)
(* (one session: discount, installments, save, load and completion).       *)
(* Outside SpecDiscount the discount dialog is one step: confirmDiscount   *)
(* takes the amount and the token typed in the dialog as its inputs.       *)
(*                                                                         *)
(* Not modelled: deletion of products and the free-text fields of a sale.  *)
(***************************************************************************)
EXTENDS Integers, Sequences, FiniteSets, TLC

\* ---------------------------------------------------------------- bounds
MaxSales == 1
MaxCart == 1
MaxQty == 1
MaxSeeded == 2
MaxCartLines == 2
MaxCartQty == 2

\* ------------------------------------------------------- program constants
PaymentTolerance == 50
RoomTolerance == 1
DiscountLimitPct == 6
MinTokenLen == 3
MinPricePct == 94

\* ------------------------------------------------------------ the universe
Clients == {"c1", "c2", "c3"}
StoreClients == {"c1", "c2"}
ManagerClients == {"c1", "c3"}
Products == {"p1", "p2"}
Methods == {"cash", "pix"}
PosMethods == {"cash"}
DiscValues == {60}
TokenLens == {0, 3}
PayValues == {0}
SellerIds == {"s1"}

\* the authenticated user of each session
UserRole == [c \in Clients |-> IF c = "c2" THEN "CASHIER" ELSE "MANAGER"]

\* the catalog: unit price and the stock each product starts with
ProductPrice == [p \in Products |-> IF p = "p1" THEN 100 ELSE 0]
InitStock == [p \in Products |-> IF p = "p1" THEN 2 ELSE 0]

VARIABLES
    stock,               \* products table: stock of each product
    sales,               \* sales table: sequence of sale records, id = index
    editingSaleId,       \* per session: id of the sale being edited, 0 = null
    isCashierConfirming, \* per session
    cart,                \* per session: sequence of items
    posDiscount,         \* per session
    posFreight,          \* per session
    posOther,            \* per session
    payments,            \* per session: amount per payment method
    selectedSellerId,    \* per session: "" or a seller id
    saleToCancel,        \* per session: id of the sale in the cancel dialog, 0 = null
    pc,                  \* per session: position of the service call in flight
    call,                \* per session: locals of the service call in flight
    outcome,             \* notice raised by the step just taken: session, kind, item
    editModalOpen,       \* per session: the item edit dialog is shown
    editItemIndex,       \* per session: cart position the dialog was opened on, 0 = null
    editItemData,        \* per session: the dialog's copy of the item
    discountModalOpen,   \* per session: the discount dialog is shown
    tempDiscountValue,   \* per session: the dialog's discount amount
    tempDiscountPercent, \* per session: the dialog's total percentage, num / den
    creditInstallments   \* per session: installments of the credit payment

vars == <<stock, sales, editingSaleId, isCashierConfirming, cart, posDiscount,
          posFreight, posOther, payments, selectedSellerId, saleToCancel,
          pc, call, outcome, editModalOpen, editItemIndex, editItemData,
          discountModalOpen, tempDiscountValue, tempDiscountPercent,
          creditInstallments>>

storeVars == <<stock, sales>>
editVars == <<editModalOpen, editItemIndex, editItemData>>
discountVars == <<discountModalOpen, tempDiscountValue, tempDiscountPercent>>
posVars == <<editingSaleId, isCashierConfirming, cart, posDiscount, posFreight,
             posOther, payments, selectedSellerId, creditInstallments>>

\* ------------------------------------------------------------------ helpers
Max(a, b) == IF a >= b THEN a ELSE b
Abs(a) == IF a >= 0 THEN a ELSE 0 - a

RECURSIVE SumSeq(_)
SumSeq(s) == IF s = <<>> THEN 0 ELSE Head(s) + SumSeq(Tail(s))

RECURSIVE SumFun(_, _)
SumFun(f, S) ==
    IF S = {} THEN 0
    ELSE LET x == CHOOSE y \in S : TRUE IN f[x] + SumFun(f, S \ {x})

\* common denominator of the prices of an item list
ItemsDen(items) == IF items = <<>> THEN 1 ELSE items[1].den

\* items.reduce((acc, item) => acc + item.total, 0), as a numerator over ItemsDen
ItemsSubTotal(items) == SumSeq([i \in 1..Len(items) |-> items[i].total])

NoPayments == [m \in Methods |-> 0]

\* the edit dialog's item data before the dialog was ever opened: {}
NoItem == [productId |-> "", quantity |-> 0, unitPrice |-> 0, originalPrice |-> 0,
           total |-> 0, den |-> 1]
NoCall == [saleId |-> 0, items |-> <<>>, discount |-> 0, finalItems |-> <<>>,
           finalDiscount |-> 0, idx |-> 0, prodStock |-> 0, status |-> ""]

\* a handler's notice: the session, the kind of notice, and for a stock failure
\* of completeSale the position of the failing item
Outcome(c, msg, at) == [client |-> c, msg |-> msg, at |-> at]
NoOutcome == Outcome("", "", 0)

\* a percentage is kept as the exact fraction num / den
Percent(num, den) == [num |-> num, den |-> den]
NoPercent == Percent(0, 1)

isSalesperson(c) == UserRole[c] \in {"SALESPERSON", "MANAGER"}
isCashier(c) == UserRole[c] \in {"CASHIER", "MANAGER"}
isManager(c) == UserRole[c] = "MANAGER"

\* the view is shown to a salesperson, or to a cashier who opened a sale
canSeePos(c) == isSalesperson(c) \/ isCashierConfirming[c]

\* derived values of the Sales view
subTotal(c) == ItemsSubTotal(cart[c])
totalGeneral(c) == Max(0, subTotal(c) - posDiscount[c] + posFreight[c] + posOther[c])
totalPaid(c) == SumFun(payments[c], Methods)
remaining(c) == Max(0, totalGeneral(c) - totalPaid(c))

Init ==
    /\ stock = InitStock
    /\ sales = <<>>
    /\ editingSaleId = [c \in Clients |-> 0]
    /\ isCashierConfirming = [c \in Clients |-> FALSE]
    /\ cart = [c \in Clients |-> <<>>]
    /\ posDiscount = [c \in Clients |-> 0]
    /\ posFreight = [c \in Clients |-> 0]
    /\ posOther = [c \in Clients |-> 0]
    /\ payments = [c \in Clients |-> NoPayments]
    /\ selectedSellerId = [c \in Clients |-> ""]
    /\ saleToCancel = [c \in Clients |-> 0]
    /\ pc = [c \in Clients |-> "idle"]
    /\ call = [c \in Clients |-> NoCall]
    /\ outcome = NoOutcome
    /\ editModalOpen = [c \in Clients |-> FALSE]
    /\ editItemIndex = [c \in Clients |-> 0]
    /\ editItemData = [c \in Clients |-> NoItem]
    /\ discountModalOpen = [c \in Clients |-> FALSE]
    /\ tempDiscountValue = [c \in Clients |-> 0]
    /\ tempDiscountPercent = [c \in Clients |-> NoPercent]
    /\ creditInstallments = [c \in Clients |-> 1]

\* ------------------------------------------------------------ cart handlers
\* a new line whose total is the unit price, whatever the quantity
NewItem_UnitTotal(p, qty) ==
    [productId |-> p, quantity |-> qty, unitPrice |-> ProductPrice[p],
     originalPrice |-> ProductPrice[p], total |-> ProductPrice[p], den |-> 1]

NewItem(p, qty) ==
    [productId |-> p, quantity |-> qty, unitPrice |-> ProductPrice[p],
     originalPrice |-> ProductPrice[p], total |-> ProductPrice[p] * qty, den |-> 1]

\* currentInCart that forgets the lines already in the cart
currentInCart_None(c, p) == 0

currentInCart(c, p) ==
    SumSeq([i \in 1..Len(cart[c]) |->
              IF cart[c][i].productId = p THEN cart[c][i].quantity ELSE 0])

handleAddItem(c, p, qty) ==
    /\ pc[c] = "idle"
    /\ isSalesperson(c)
    /\ ~isCashierConfirming[c]
    /\ IF stock[p] < currentInCart(c, p) + qty
       THEN /\ outcome' = Outcome(c, "InsufficientStock", 0)
            /\ UNCHANGED cart
       ELSE /\ cart' = [cart EXCEPT ![c] = Append(@, NewItem(p, qty))]
            /\ outcome' = NoOutcome
    /\ UNCHANGED <<storeVars, editingSaleId, isCashierConfirming, posDiscount,
                   posFreight, posOther, payments, selectedSellerId,
                   saleToCancel, pc, call>>
    /\ UNCHANGED <<editVars, discountVars>>
    /\ UNCHANGED creditInstallments

handleRemoveItem(c, idx) ==
    /\ pc[c] = "idle"
    /\ isSalesperson(c)
    /\ ~isCashierConfirming[c]
    /\ idx \in 1..Len(cart[c])
    /\ cart' = [cart EXCEPT ![c] =
                  [i \in 1..(Len(@) - 1) |-> IF i < idx THEN @[i] ELSE @[i + 1]]]
    /\ outcome' = NoOutcome
    /\ UNCHANGED <<storeVars, editingSaleId, isCashierConfirming, posDiscount,
                   posFreight, posOther, payments, selectedSellerId,
                   saleToCancel, pc, call>>
    /\ UNCHANGED <<editVars, discountVars>>
    /\ UNCHANGED creditInstallments

\* ---------------------------------------------------------- item edit dialog
\* the edit button of a cart line; it is disabled while a global discount is
\* applied and in the cashier's conference
openEditModal(c, idx) ==
    /\ pc[c] = "idle"
    /\ isSalesperson(c)
    /\ ~isCashierConfirming[c]
    /\ posDiscount[c] = 0
    /\ idx \in 1..Len(cart[c])
    /\ editItemIndex' = [editItemIndex EXCEPT ![c] = idx]
    /\ editItemData' = [editItemData EXCEPT ![c] = cart[c][idx]]
    /\ editModalOpen' = [editModalOpen EXCEPT ![c] = TRUE]
    /\ outcome' = NoOutcome
    /\ UNCHANGED <<storeVars, posVars, saleToCancel, pc, call>>
    /\ UNCHANGED discountVars

\* the dialog's unit price field: setEditItemData({...editItemData, unitPrice})
setEditItemUnitPrice(c, value) ==
    /\ pc[c] = "idle"
    /\ editModalOpen[c]
    /\ editItemData[c].unitPrice # value
    /\ editItemData' = [editItemData EXCEPT ![c].unitPrice = value]
    /\ outcome' = NoOutcome
    /\ UNCHANGED <<storeVars, posVars, saleToCancel, pc, call, editModalOpen, editItemIndex>>
    /\ UNCHANGED discountVars

\* the dialog's quantity field: setEditItemData({...editItemData, quantity})
setEditItemQuantity(c, value) ==
    /\ pc[c] = "idle"
    /\ editModalOpen[c]
    /\ editItemData[c].quantity # value
    /\ editItemData' = [editItemData EXCEPT ![c].quantity = value]
    /\ outcome' = NoOutcome
    /\ UNCHANGED <<storeVars, posVars, saleToCancel, pc, call, editModalOpen, editItemIndex>>
    /\ UNCHANGED discountVars

\* original * 0.94; the catalog's prices are multiples of 0.05, so the division is exact
minAllowedPrice(original) == (original * MinPricePct) \div 100

\* finalPriceOf without the floor
finalPriceOf_NoFloor(data) ==
    LET original == IF data.originalPrice # 0 THEN data.originalPrice ELSE data.unitPrice
    IN  IF data.unitPrice = 0 THEN original ELSE data.unitPrice

\* the price saveEditItem stores for the dialog's data
finalPriceOf(data) ==
    LET original == IF data.originalPrice # 0 THEN data.originalPrice ELSE data.unitPrice
        finalPrice == IF data.unitPrice = 0 THEN original ELSE data.unitPrice
    IN  IF finalPrice * 100 < original * MinPricePct
        THEN minAllowedPrice(original) ELSE finalPrice

\* the dialog's confirm button.  updatedCart[editItemIndex] = newItem replaces
\* the line at that position, or appends when the position is just past the
\* end of a cart that got shorter; a position further out is not modelled
saveEditItem(c) ==
    /\ pc[c] = "idle"
    /\ editModalOpen[c]
    /\ editItemIndex[c] <= Len(cart[c]) + 1
    /\ IF editItemIndex[c] # 0 /\ editItemData[c].quantity # 0
       THEN LET data == editItemData[c]
                finalPrice == finalPriceOf(data)
                newItem == [data EXCEPT !.unitPrice = finalPrice,
                                        !.total = data.quantity * finalPrice]
            IN  /\ cart' = [cart EXCEPT ![c] =
                              IF editItemIndex[c] <= Len(@)
                              THEN [@ EXCEPT ![editItemIndex[c]] = newItem]
                              ELSE Append(@, newItem)]
                /\ editModalOpen' = [editModalOpen EXCEPT ![c] = FALSE]
                /\ outcome' = IF data.unitPrice = 0 THEN Outcome(c, "PriceReverted", 0)
                              ELSE IF finalPrice # data.unitPrice
                                   THEN Outcome(c, "PriceAdjusted", 0)
                                   ELSE NoOutcome
       ELSE /\ outcome' = NoOutcome
            /\ UNCHANGED <<cart, editModalOpen>>
    /\ UNCHANGED <<storeVars, editingSaleId, isCashierConfirming, posDiscount,
                   posFreight, posOther, payments, selectedSellerId,
                   saleToCancel, pc, call, editItemIndex, editItemData>>
    /\ UNCHANGED discountVars
    /\ UNCHANGED creditInstallments

\* the effect left out
DiscountEffect_Never(old, new) ==
    FALSE

\* useEffect(() => { if (posDiscount > 0) setCreditInstallments(1) }, [posDiscount]):
\* the effect runs after a render in which posDiscount changed
DiscountEffect(old, new) ==
    new # old /\ new > 0

\* cart.reduce((acc, item) => acc + item.quantity * (item.originalPrice || item.unitPrice), 0)
totalOriginalValue(c) ==
    SumSeq([i \in 1..Len(cart[c]) |->
              cart[c][i].quantity *
                (IF cart[c][i].originalPrice # 0 THEN cart[c][i].originalPrice
                 ELSE cart[c][i].unitPrice)])

\* DiscountOverLimit that counts the proposed global discount only
DiscountOverLimit_GlobalOnly(c, discountValue) ==
    /\ totalOriginalValue(c) > 0
    /\ discountValue * 100 > DiscountLimitPct * totalOriginalValue(c)

\* finalPercent > 6, with finalPercent = totalDiscount / totalOriginalValue * 100
\* when totalOriginalValue > 0 and 0 otherwise
DiscountOverLimit(c, discountValue) ==
    LET discountFromItems == totalOriginalValue(c) - subTotal(c)
        totalDiscount == discountFromItems + discountValue
    IN  /\ totalOriginalValue(c) > 0
        /\ totalDiscount * 100 > DiscountLimitPct * totalOriginalValue(c)

\* the discount dialog's confirm button, with the amount and the token typed in it
confirmDiscount(c, discountValue, tokenLen) ==
    /\ pc[c] = "idle"
    /\ isSalesperson(c)
    /\ ~isCashierConfirming[c]
    /\ IF DiscountOverLimit(c, discountValue) /\ tokenLen < MinTokenLen
       THEN /\ outcome' = Outcome(c, "AuthorizationRequired", 0)
            /\ UNCHANGED <<posDiscount, creditInstallments, discountModalOpen>>
       ELSE /\ posDiscount' = [posDiscount EXCEPT ![c] = discountValue]
            /\ creditInstallments' =
                  [creditInstallments EXCEPT ![c] =
                      IF DiscountEffect(posDiscount[c], discountValue) THEN 1 ELSE @]
            /\ discountModalOpen' = [discountModalOpen EXCEPT ![c] = FALSE]
            /\ outcome' = NoOutcome
    /\ UNCHANGED <<storeVars, editingSaleId, isCashierConfirming, cart,
                   posFreight, posOther, payments, selectedSellerId,
                   saleToCancel, pc, call>>
    /\ UNCHANGED <<editVars, tempDiscountValue, tempDiscountPercent>>

\* the discount field's clear button: setPosDiscount(0)
clearDiscount(c) ==
    /\ pc[c] = "idle"
    /\ isSalesperson(c)
    /\ ~isCashierConfirming[c]
    /\ posDiscount[c] # 0
    /\ posDiscount' = [posDiscount EXCEPT ![c] = 0]
    /\ outcome' = NoOutcome
    /\ UNCHANGED <<storeVars, editingSaleId, isCashierConfirming, cart,
                   posFreight, posOther, payments, selectedSellerId,
                   saleToCancel, pc, call>>
    /\ UNCHANGED <<editVars, discountVars>>
    /\ UNCHANGED creditInstallments

\* ------------------------------------------------------- discount dialog
discountFromItems(c) == totalOriginalValue(c) - subTotal(c)

\* totalOriginalValue > 0 ? (totalDiscount / totalOriginalValue) * 100 : 0
effectivePercent(c, discountValue) ==
    IF totalOriginalValue(c) > 0
    THEN Percent(100 * (discountFromItems(c) + discountValue), totalOriginalValue(c))
    ELSE NoPercent

\* the discount button of the totals panel
openDiscountModal(c) ==
    /\ pc[c] = "idle"
    /\ isSalesperson(c)
    /\ ~isCashierConfirming[c]
    /\ ~discountModalOpen[c]
    /\ tempDiscountValue' = [tempDiscountValue EXCEPT ![c] = posDiscount[c]]
    /\ tempDiscountPercent' =
          [tempDiscountPercent EXCEPT ![c] = effectivePercent(c, posDiscount[c])]
    /\ discountModalOpen' = [discountModalOpen EXCEPT ![c] = TRUE]
    /\ outcome' = NoOutcome
    /\ UNCHANGED <<storeVars, posVars, saleToCancel, pc, call, editVars>>

\* the dialog's cancel and close buttons
closeDiscountModal(c) ==
    /\ pc[c] = "idle"
    /\ discountModalOpen[c]
    /\ discountModalOpen' = [discountModalOpen EXCEPT ![c] = FALSE]
    /\ outcome' = NoOutcome
    /\ UNCHANGED <<storeVars, posVars, saleToCancel, pc, call, editVars,
                   tempDiscountValue, tempDiscountPercent>>

\* the dialog's amount field
handleDiscountValueChange(c, val) ==
    /\ pc[c] = "idle"
    /\ discountModalOpen[c]
    /\ tempDiscountValue' = [tempDiscountValue EXCEPT ![c] = val]
    /\ tempDiscountPercent' = [tempDiscountPercent EXCEPT ![c] = effectivePercent(c, val)]
    /\ outcome' = NoOutcome
    /\ UNCHANGED <<storeVars, posVars, saleToCancel, pc, call, editVars,
                   discountModalOpen>>

\* the dialog's percentage field.  targetTotalDiscount = totalOriginalValue *
\* pct / 100; the carts of the dialog's specification hold original values
\* that are multiples of 0.100 and pct is a whole number, so the division is
\* exact
handleDiscountPercentChange(c, pct) ==
    /\ pc[c] = "idle"
    /\ discountModalOpen[c]
    /\ LET targetTotalDiscount == (totalOriginalValue(c) * pct) \div 100
           neededGlobalDiscount == Max(0, targetTotalDiscount - discountFromItems(c))
       IN  /\ tempDiscountPercent' = [tempDiscountPercent EXCEPT ![c] = Percent(pct, 1)]
           /\ tempDiscountValue' = [tempDiscountValue EXCEPT ![c] = neededGlobalDiscount]
    /\ outcome' = NoOutcome
    /\ UNCHANGED <<storeVars, posVars, saleToCancel, pc, call, editVars,
                   discountModalOpen>>

\* the dialog's "total with discount" field
handleDiscountTotalChange(c, totalComDesconto) ==
    /\ pc[c] = "idle"
    /\ discountModalOpen[c]
    /\ LET newGlobalDiscount == Max(0, subTotal(c) - totalComDesconto) IN
       /\ tempDiscountValue' = [tempDiscountValue EXCEPT ![c] = newGlobalDiscount]
       /\ tempDiscountPercent' =
             [tempDiscountPercent EXCEPT ![c] = effectivePercent(c, newGlobalDiscount)]
    /\ outcome' = NoOutcome
    /\ UNCHANGED <<storeVars, posVars, saleToCancel, pc, call, editVars,
                   discountModalOpen>>

\* the value the "total with discount" field shows: subTotal - tempDiscountValue
totalComDescontoShown(c) == subTotal(c) - tempDiscountValue[c]

\* the installments select of the credit field; disabled while posDiscount > 0
setCreditInstallments(c, n) ==
    /\ pc[c] = "idle"
    /\ canSeePos(c)
    /\ posDiscount[c] = 0
    /\ creditInstallments[c] # n
    /\ creditInstallments' = [creditInstallments EXCEPT ![c] = n]
    /\ outcome' = NoOutcome
    /\ UNCHANGED <<storeVars, editingSaleId, isCashierConfirming, cart,
                   posDiscount, posFreight, posOther, payments, selectedSellerId,
                   saleToCancel, pc, call>>
    /\ UNCHANGED <<editVars, discountVars>>

setSelectedSellerId(c, v) ==
    /\ pc[c] = "idle"
    /\ isSalesperson(c)
    /\ ~isCashierConfirming[c]
    /\ selectedSellerId[c] # v
    /\ selectedSellerId' = [selectedSellerId EXCEPT ![c] = v]
    /\ outcome' = NoOutcome
    /\ UNCHANGED <<storeVars, editingSaleId, isCashierConfirming, cart,
                   posDiscount, posFreight, posOther, payments,
                   saleToCancel, pc, call>>
    /\ UNCHANGED <<editVars, discountVars>>
    /\ UNCHANGED creditInstallments

\* handlePaymentChange that measures the room left against every field, the
\* edited one included
handlePaymentChange_AllFields(c, key, value) ==
    /\ pc[c] = "idle"
    /\ canSeePos(c)
    /\ LET roomLeft == totalGeneral(c) - totalPaid(c)
       IN  IF value > roomLeft + RoomTolerance
           THEN /\ outcome' = Outcome(c, "ExceedsRemaining", 0)
                /\ UNCHANGED payments
           ELSE /\ payments' = [payments EXCEPT ![c][key] = value]
                /\ outcome' = NoOutcome
    /\ UNCHANGED <<storeVars, editingSaleId, isCashierConfirming, cart,
                   posDiscount, posFreight, posOther, selectedSellerId,
                   saleToCancel, pc, call>>
    /\ UNCHANGED <<editVars, discountVars>>
    /\ UNCHANGED creditInstallments

handlePaymentChange(c, key, value) ==
    /\ pc[c] = "idle"
    /\ canSeePos(c)
    /\ LET currentFieldValue == payments[c][key]
           totalPaidByOthers == totalPaid(c) - currentFieldValue
           roomLeft == totalGeneral(c) - totalPaidByOthers
       IN  IF value > roomLeft + RoomTolerance
           THEN /\ outcome' = Outcome(c, "ExceedsRemaining", 0)
                /\ UNCHANGED payments
           ELSE /\ payments' = [payments EXCEPT ![c][key] = value]
                /\ outcome' = NoOutcome
    /\ UNCHANGED <<storeVars, editingSaleId, isCashierConfirming, cart,
                   posDiscount, posFreight, posOther, selectedSellerId,
                   saleToCancel, pc, call>>
    /\ UNCHANGED <<editVars, discountVars>>
    /\ UNCHANGED creditInstallments

\* Enter in a payment field: the field takes what remains to be paid
handlePaymentKeyDown(c, key) ==
    handlePaymentChange(c, key, payments[c][key] + remaining(c))

\* ------------------------------------------------- opening and closing a sale
\* handleEditSale(sale): the row's sale is copied into the view's state
LoadSale(c, id) ==
    /\ editingSaleId' = [editingSaleId EXCEPT ![c] = id]
    /\ cart' = [cart EXCEPT ![c] = sales[id].items]
    /\ posDiscount' = [posDiscount EXCEPT ![c] = sales[id].discount]
    /\ posFreight' = [posFreight EXCEPT ![c] = sales[id].freight]
    /\ posOther' = [posOther EXCEPT ![c] = sales[id].otherCosts]
    /\ payments' = [payments EXCEPT ![c] = sales[id].payments]
    /\ selectedSellerId' = [selectedSellerId EXCEPT ![c] = sales[id].salespersonId]
    /\ creditInstallments' =
          [creditInstallments EXCEPT ![c] =
              IF DiscountEffect(posDiscount[c], sales[id].discount)
              THEN 1 ELSE sales[id].installments]

\* the edit button of the history table
handleEditSale(c, id) ==
    /\ pc[c] = "idle"
    /\ id \in 1..Len(sales)
    /\ isSalesperson(c)
    /\ sales[id].status # "COMPLETED"
    /\ sales[id].status # "CANCELLED"
    /\ LoadSale(c, id)
    /\ outcome' = NoOutcome
    /\ UNCHANGED <<storeVars, isCashierConfirming, saleToCancel, pc, call>>
    /\ UNCHANGED <<editVars, discountVars>>

\* the open button of the cashier's list of pending sales
handleCashierOpenSale(c, id) ==
    /\ pc[c] = "idle"
    /\ id \in 1..Len(sales)
    /\ isCashier(c)
    /\ sales[id].status = "PENDING"
    /\ LoadSale(c, id)
    /\ isCashierConfirming' = [isCashierConfirming EXCEPT ![c] = TRUE]
    /\ outcome' = NoOutcome
    /\ UNCHANGED <<storeVars, saleToCancel, pc, call>>
    /\ UNCHANGED <<editVars, discountVars>>

resetSalesState(c) ==
    /\ editingSaleId' = [editingSaleId EXCEPT ![c] = 0]
    /\ isCashierConfirming' = [isCashierConfirming EXCEPT ![c] = FALSE]
    /\ cart' = [cart EXCEPT ![c] = <<>>]
    /\ posDiscount' = [posDiscount EXCEPT ![c] = 0]
    /\ posFreight' = [posFreight EXCEPT ![c] = 0]
    /\ posOther' = [posOther EXCEPT ![c] = 0]
    /\ payments' = [payments EXCEPT ![c] = NoPayments]
    /\ selectedSellerId' = [selectedSellerId EXCEPT ![c] = ""]
    /\ creditInstallments' = [creditInstallments EXCEPT ![c] = 1]

\* the "cancel edit / cancel conference" link of the banner
cancelEditing(c) ==
    /\ pc[c] = "idle"
    /\ editingSaleId[c] # 0
    /\ resetSalesState(c)
    /\ outcome' = NoOutcome
    /\ UNCHANGED <<storeVars, saleToCancel, pc, call>>
    /\ UNCHANGED <<editVars, discountVars>>

\* ------------------------------------------------------------ service calls
\* createSale: the row the insert stores
createSale(saleData) ==
    [status |-> IF saleData.status # "" THEN saleData.status ELSE "PENDING",
     totalValue |-> saleData.totalValue,
     discount |-> saleData.discount,
     freight |-> saleData.freight,
     otherCosts |-> saleData.otherCosts,
     items |-> saleData.items,
     payments |-> saleData.payments,
     installments |-> saleData.installments,
     salespersonId |-> saleData.salespersonId,
     cashierId |-> "",
     finishedAt |-> FALSE]

\* updateSale: the row after the update; saleData is a function from the
\* fields the caller passed to their values, a field it left out is not written
updateSale(row, saleData) ==
    [f \in DOMAIN row |->
        IF f \in DOMAIN saleData /\ f \notin {"cashierId", "finishedAt"}
             /\ (f = "status" => saleData[f] # "")
        THEN saleData[f] ELSE row[f]]

PaymentMismatch(paid, total) == Abs(paid - total) > PaymentTolerance

\* handleSubmitSale that does not require a responsible salesperson
handleSubmitSale_NoSellerCheck(c, asBudget) ==
    /\ pc[c] = "idle"
    /\ isSalesperson(c)
    /\ ~isCashierConfirming[c]
    /\ LET salePayload ==
             [items |-> cart[c], salespersonId |-> selectedSellerId[c],
              discount |-> posDiscount[c], freight |-> posFreight[c],
              otherCosts |-> posOther[c], payments |-> payments[c],
              installments |-> creditInstallments[c],
              totalValue |-> totalGeneral(c),
              status |-> IF asBudget THEN "BUDGET" ELSE "PENDING"]
       IN
       IF Len(cart[c]) = 0
       THEN /\ outcome' = Outcome(c, "ValidationError", 0)
            /\ UNCHANGED <<storeVars, posVars>>
       ELSE IF /\ ~asBudget
               /\ totalGeneral(c) > 0
               /\ (totalPaid(c) = 0 \/ PaymentMismatch(totalPaid(c), totalGeneral(c)))
       THEN /\ outcome' = Outcome(c, "PaymentMismatch", 0)
            /\ UNCHANGED <<storeVars, posVars>>
       ELSE /\ IF editingSaleId[c] # 0
               THEN sales' = [sales EXCEPT ![editingSaleId[c]] = updateSale(@, salePayload)]
               ELSE /\ Len(sales) < MaxSales
                    /\ sales' = Append(sales, createSale(salePayload))
            /\ resetSalesState(c)
            /\ outcome' = Outcome(c, "saved", 0)
            /\ UNCHANGED stock
    /\ UNCHANGED <<saleToCancel, pc, call>>
    /\ UNCHANGED <<editVars, discountVars>>

\* handleSubmitSale(asBudget): validation, then one insert or update, then reset
handleSubmitSale(c, asBudget) ==
    /\ pc[c] = "idle"
    /\ isSalesperson(c)
    /\ ~isCashierConfirming[c]
    /\ LET salePayload ==
             [items |-> cart[c], salespersonId |-> selectedSellerId[c],
              discount |-> posDiscount[c], freight |-> posFreight[c],
              otherCosts |-> posOther[c], payments |-> payments[c],
              installments |-> creditInstallments[c],
              totalValue |-> totalGeneral(c),
              status |-> IF asBudget THEN "BUDGET" ELSE "PENDING"]
       IN
       IF Len(cart[c]) = 0 \/ selectedSellerId[c] = ""
       THEN /\ outcome' = Outcome(c, "ValidationError", 0)
            /\ UNCHANGED <<storeVars, posVars>>
       ELSE IF /\ ~asBudget
               /\ totalGeneral(c) > 0
               /\ (totalPaid(c) = 0 \/ PaymentMismatch(totalPaid(c), totalGeneral(c)))
       THEN /\ outcome' = Outcome(c, "PaymentMismatch", 0)
            /\ UNCHANGED <<storeVars, posVars>>
       ELSE /\ IF editingSaleId[c] # 0
               THEN sales' = [sales EXCEPT ![editingSaleId[c]] = updateSale(@, salePayload)]
               ELSE /\ Len(sales) < MaxSales
                    /\ sales' = Append(sales, createSale(salePayload))
            /\ resetSalesState(c)
            /\ outcome' = Outcome(c, "saved", 0)
            /\ UNCHANGED stock
    /\ UNCHANGED <<saleToCancel, pc, call>>
    /\ UNCHANGED <<editVars, discountVars>>

\* ------------------------------------------------------------- completeSale
\* finalItemsOf that scales the unit prices and leaves each item's total as loaded
finalItemsOf_StaleTotal(items, discount) ==
    LET sn == ItemsSubTotal(items)
        den == ItemsDen(items)
    IN  IF discount > 0 /\ sn > 0
        THEN [i \in 1..Len(items) |->
                [items[i] EXCEPT
                   !.unitPrice = items[i].unitPrice * (sn - discount * den),
                   !.total = items[i].total * sn,
                   !.den = items[i].den * sn]]
        ELSE items

\* step 2 of completeSale: the loaded items with the global discount spread
\* over them.  factor = (subTotal - discount) / subTotal multiplies each unit
\* price; with prices over den and subTotal = sn / den the new price is
\* unitPrice * (sn - discount * den) over den * sn
finalItemsOf(items, discount) ==
    LET sn == ItemsSubTotal(items)
        den == ItemsDen(items)
    IN  IF discount > 0 /\ sn > 0
        THEN [i \in 1..Len(items) |->
                [items[i] EXCEPT
                   !.unitPrice = items[i].unitPrice * (sn - discount * den),
                   !.total = items[i].unitPrice * (sn - discount * den) * items[i].quantity,
                   !.den = items[i].den * sn]]
        ELSE items

finalDiscountOf(items, discount) ==
    IF discount > 0 /\ ItemsSubTotal(items) > 0 THEN 0 ELSE discount

\* handleCashierFinalize: the payment check, then updateSale with the payments;
\* completeSale follows as the steps below
handleCashierFinalize(c) ==
    /\ pc[c] = "idle"
    /\ isCashierConfirming[c]
    /\ editingSaleId[c] # 0
    /\ IF PaymentMismatch(totalPaid(c), totalGeneral(c))
       THEN /\ outcome' = Outcome(c, "PaymentMismatch", 0)
            /\ UNCHANGED <<sales, pc, call>>
       ELSE /\ sales' = [sales EXCEPT ![editingSaleId[c]] =
                            updateSale(@, [payments |-> payments[c],
                                           installments |-> creditInstallments[c]])]
            /\ pc' = [pc EXCEPT ![c] = "cs_fetch"]
            /\ call' = [call EXCEPT ![c] = [NoCall EXCEPT !.saleId = editingSaleId[c]]]
            /\ outcome' = NoOutcome
    /\ UNCHANGED <<stock, posVars, saleToCancel>>
    /\ UNCHANGED <<editVars, discountVars>>

\* completeSaleFetch without the check of the loaded status
completeSaleFetch_NoStatusCheck(c) ==
    /\ pc[c] = "cs_fetch"
    /\ LET sale == sales[call[c].saleId] IN
       /\ call' = [call EXCEPT ![c] =
                     [@ EXCEPT !.items = sale.items,
                               !.discount = sale.discount,
                               !.status = sale.status,
                               !.finalItems = finalItemsOf(sale.items, sale.discount),
                               !.finalDiscount = finalDiscountOf(sale.items, sale.discount),
                               !.idx = 1]]
       /\ pc' = [pc EXCEPT ![c] = IF Len(sale.items) = 0 THEN "cs_final" ELSE "cs_read"]
       /\ outcome' = NoOutcome
    /\ UNCHANGED <<storeVars, posVars, saleToCancel>>
    /\ UNCHANGED <<editVars, discountVars>>

\* completeSale step 1 and 2: load the sale, reject a completed one, prepare the items
completeSaleFetch(c) ==
    /\ pc[c] = "cs_fetch"
    /\ LET sale == sales[call[c].saleId] IN
       IF sale.status = "COMPLETED"
       THEN /\ pc' = [pc EXCEPT ![c] = "idle"]
            /\ call' = [call EXCEPT ![c] = NoCall]
            /\ outcome' = Outcome(c, "AlreadyCompleted", 0)
       ELSE /\ call' = [call EXCEPT ![c] =
                          [@ EXCEPT !.items = sale.items,
                                    !.discount = sale.discount,
                                    !.status = sale.status,
                                    !.finalItems = finalItemsOf(sale.items, sale.discount),
                                    !.finalDiscount = finalDiscountOf(sale.items, sale.discount),
                                    !.idx = 1]]
            /\ pc' = [pc EXCEPT ![c] = IF Len(sale.items) = 0 THEN "cs_final" ELSE "cs_read"]
            /\ outcome' = NoOutcome
    /\ UNCHANGED <<storeVars, posVars, saleToCancel>>
    /\ UNCHANGED <<editVars, discountVars>>

\* completeSaleRead that only requires the product to have some stock left
completeSaleRead_AnyStock(c) ==
    /\ pc[c] = "cs_read"
    /\ LET item == call[c].finalItems[call[c].idx]
           prodStock == stock[item.productId]
       IN  IF prodStock < 1
           THEN /\ pc' = [pc EXCEPT ![c] = "idle"]
                /\ call' = [call EXCEPT ![c] = NoCall]
                /\ outcome' = Outcome(c, "InsufficientStock", call[c].idx)
           ELSE /\ pc' = [pc EXCEPT ![c] = "cs_write"]
                /\ call' = [call EXCEPT ![c].prodStock = prodStock]
                /\ outcome' = NoOutcome
    /\ UNCHANGED <<storeVars, posVars, saleToCancel>>
    /\ UNCHANGED <<editVars, discountVars>>

\* completeSaleRead without the comparison of the stock with the quantity
completeSaleRead_NoCheck(c) ==
    /\ pc[c] = "cs_read"
    /\ pc' = [pc EXCEPT ![c] = "cs_write"]
    /\ call' = [call EXCEPT ![c].prodStock = stock[call[c].finalItems[call[c].idx].productId]]
    /\ outcome' = NoOutcome
    /\ UNCHANGED <<storeVars, posVars, saleToCancel>>
    /\ UNCHANGED <<editVars, discountVars>>

\* completeSale step 3: re-read the stock of the current item's product and check it
completeSaleRead(c) ==
    /\ pc[c] = "cs_read"
    /\ LET item == call[c].finalItems[call[c].idx]
           prodStock == stock[item.productId]
       IN  IF prodStock < item.quantity
           THEN /\ pc' = [pc EXCEPT ![c] = "idle"]
                /\ call' = [call EXCEPT ![c] = NoCall]
                /\ outcome' = Outcome(c, "InsufficientStock", call[c].idx)
           ELSE /\ pc' = [pc EXCEPT ![c] = "cs_write"]
                /\ call' = [call EXCEPT ![c].prodStock = prodStock]
                /\ outcome' = NoOutcome
    /\ UNCHANGED <<storeVars, posVars, saleToCancel>>
    /\ UNCHANGED <<editVars, discountVars>>

\* completeSaleWrite that decrements the stock the product has at the write
completeSaleWrite_Current(c) ==
    /\ pc[c] = "cs_write"
    /\ LET item == call[c].finalItems[call[c].idx] IN
       /\ stock' = [stock EXCEPT ![item.productId] = stock[item.productId] - item.quantity]
       /\ call' = [call EXCEPT ![c].idx = @ + 1, ![c].prodStock = 0]
       /\ pc' = [pc EXCEPT ![c] =
                   IF call[c].idx = Len(call[c].finalItems) THEN "cs_final" ELSE "cs_read"]
    /\ outcome' = NoOutcome
    /\ UNCHANGED <<sales, posVars, saleToCancel>>
    /\ UNCHANGED <<editVars, discountVars>>

\* completeSale step 3, the decrement: stock = prod.stock - item.quantity
completeSaleWrite(c) ==
    /\ pc[c] = "cs_write"
    /\ LET item == call[c].finalItems[call[c].idx] IN
       /\ stock' = [stock EXCEPT ![item.productId] = call[c].prodStock - item.quantity]
       /\ call' = [call EXCEPT ![c].idx = @ + 1, ![c].prodStock = 0]
       /\ pc' = [pc EXCEPT ![c] =
                   IF call[c].idx = Len(call[c].finalItems) THEN "cs_final" ELSE "cs_read"]
    /\ outcome' = NoOutcome
    /\ UNCHANGED <<sales, posVars, saleToCancel>>
    /\ UNCHANGED <<editVars, discountVars>>

\* completeSaleFinal that does not write finished_at
completeSaleFinal_NoTimestamp(c) ==
    /\ pc[c] = "cs_final"
    /\ sales' = [sales EXCEPT ![call[c].saleId] =
                    [@ EXCEPT !.status = "COMPLETED",
                              !.cashierId = c,
                              !.items = call[c].finalItems,
                              !.discount = call[c].finalDiscount]]
    /\ resetSalesState(c)
    /\ pc' = [pc EXCEPT ![c] = "idle"]
    /\ call' = [call EXCEPT ![c] = NoCall]
    /\ outcome' = Outcome(c, "completed", 0)
    /\ UNCHANGED <<stock, saleToCancel>>
    /\ UNCHANGED <<editVars, discountVars>>

\* completeSale step 4: the sale row is finalized; the view is then reset
completeSaleFinal(c) ==
    /\ pc[c] = "cs_final"
    /\ sales' = [sales EXCEPT ![call[c].saleId] =
                    [@ EXCEPT !.status = "COMPLETED",
                              !.cashierId = c,
                              !.finishedAt = TRUE,
                              !.items = call[c].finalItems,
                              !.discount = call[c].finalDiscount]]
    /\ resetSalesState(c)
    /\ pc' = [pc EXCEPT ![c] = "idle"]
    /\ call' = [call EXCEPT ![c] = NoCall]
    /\ outcome' = Outcome(c, "completed", 0)
    /\ UNCHANGED <<stock, saleToCancel>>
    /\ UNCHANGED <<editVars, discountVars>>

\* --------------------------------------------------------------- cancelSale
\* the cancel button of the history table opens the confirmation dialog
requestCancelSale(c, id) ==
    /\ pc[c] = "idle"
    /\ id \in 1..Len(sales)
    /\ isManager(c)
    /\ sales[id].status # "CANCELLED"
    /\ saleToCancel[c] # id
    /\ saleToCancel' = [saleToCancel EXCEPT ![c] = id]
    /\ outcome' = NoOutcome
    /\ UNCHANGED <<storeVars, posVars, pc, call>>
    /\ UNCHANGED <<editVars, discountVars>>

\* cancelSaleFetch that returns the stock of a sale whatever its loaded status
cancelSaleFetch_AnyStatus(c) ==
    /\ pc[c] = "idle"
    /\ saleToCancel[c] # 0
    /\ LET sale == sales[saleToCancel[c]] IN
       /\ call' = [call EXCEPT ![c] =
                     [NoCall EXCEPT !.saleId = saleToCancel[c],
                                    !.items = sale.items,
                                    !.status = sale.status,
                                    !.idx = 1]]
       /\ pc' = [pc EXCEPT ![c] = IF Len(sale.items) > 0 THEN "cn_read" ELSE "cn_final"]
    /\ outcome' = NoOutcome
    /\ UNCHANGED <<storeVars, posVars, saleToCancel>>
    /\ UNCHANGED <<editVars, discountVars>>

\* executeCancelSale: cancelSale loads the sale
cancelSaleFetch(c) ==
    /\ pc[c] = "idle"
    /\ saleToCancel[c] # 0
    /\ LET sale == sales[saleToCancel[c]] IN
       /\ call' = [call EXCEPT ![c] =
                     [NoCall EXCEPT !.saleId = saleToCancel[c],
                                    !.items = sale.items,
                                    !.status = sale.status,
                                    !.idx = 1]]
       /\ pc' = [pc EXCEPT ![c] =
                   IF sale.status = "COMPLETED" /\ Len(sale.items) > 0
                   THEN "cn_read" ELSE "cn_final"]
    /\ outcome' = NoOutcome
    /\ UNCHANGED <<storeVars, posVars, saleToCancel>>
    /\ UNCHANGED <<editVars, discountVars>>

\* cancelSale on a completed sale: read the stock of the current item's product
cancelSaleRead(c) ==
    /\ pc[c] = "cn_read"
    /\ call' = [call EXCEPT ![c].prodStock = stock[call[c].items[call[c].idx].productId]]
    /\ pc' = [pc EXCEPT ![c] = "cn_write"]
    /\ outcome' = NoOutcome
    /\ UNCHANGED <<storeVars, posVars, saleToCancel>>
    /\ UNCHANGED <<editVars, discountVars>>

\* cancelSale on a completed sale: stock = prod.stock + item.quantity
cancelSaleWrite(c) ==
    /\ pc[c] = "cn_write"
    /\ LET item == call[c].items[call[c].idx] IN
       /\ stock' = [stock EXCEPT ![item.productId] = call[c].prodStock + item.quantity]
       /\ call' = [call EXCEPT ![c].idx = @ + 1, ![c].prodStock = 0]
       /\ pc' = [pc EXCEPT ![c] =
                   IF call[c].idx = Len(call[c].items) THEN "cn_final" ELSE "cn_read"]
    /\ outcome' = NoOutcome
    /\ UNCHANGED <<sales, posVars, saleToCancel>>
    /\ UNCHANGED <<editVars, discountVars>>

\* cancelSale: the status is set to CANCELLED; the dialog is then closed
cancelSaleFinal(c) ==
    /\ pc[c] = "cn_final"
    /\ sales' = [sales EXCEPT ![call[c].saleId] = [@ EXCEPT !.status = "CANCELLED"]]
    /\ saleToCancel' = [saleToCancel EXCEPT ![c] = 0]
    /\ pc' = [pc EXCEPT ![c] = "idle"]
    /\ call' = [call EXCEPT ![c] = NoCall]
    /\ outcome' = Outcome(c, "cancelled", call[c].idx - 1)
    /\ UNCHANGED <<stock, posVars>>
    /\ UNCHANGED <<editVars, discountVars>>

Next ==
    \E c \in StoreClients :
        \/ \E p \in Products, qty \in 1..MaxQty :
              Len(cart[c]) < MaxCart /\ handleAddItem(c, p, qty)
        \/ \E idx \in DOMAIN cart[c] : handleRemoveItem(c, idx)
        \/ \E v \in DiscValues, t \in TokenLens : confirmDiscount(c, v, t)
        \/ clearDiscount(c)
        \/ \E v \in SellerIds \cup {""} : setSelectedSellerId(c, v)
        \/ \E m \in PosMethods, v \in PayValues : handlePaymentChange(c, m, v)
        \/ \E m \in PosMethods : handlePaymentKeyDown(c, m)
        \/ \E id \in DOMAIN sales : handleEditSale(c, id)
        \/ \E id \in DOMAIN sales : handleCashierOpenSale(c, id)
        \/ cancelEditing(c)
        \/ \E b \in BOOLEAN : handleSubmitSale(c, b)
        \/ handleCashierFinalize(c)
        \/ completeSaleFetch(c)
        \/ completeSaleRead(c)
        \/ completeSaleWrite(c)
        \/ completeSaleFinal(c)
        \/ \E id \in DOMAIN sales : requestCancelSale(c, id)
        \/ cancelSaleFetch(c)
        \/ cancelSaleRead(c)
        \/ cancelSaleWrite(c)
        \/ cancelSaleFinal(c)

Spec == Init /\ [][Next]_vars

\* ------------------------------------------------- the store under its calls
\* A second specification for the service calls alone: the store starts with
\* sales that handleSubmitSale has saved (items that handleAddItem accepted
\* against SeedStock, payments entered in full), and the sessions only open,
\* finalize and cancel them.
SeedStock == [p \in Products |-> IF p = "p1" THEN 3 ELSE 1]

SeedItem(p, qty) == NewItem(p, qty)

SeedSale(items, discount, freight, status) ==
    LET total == Max(0, ItemsSubTotal(items) - discount + freight) IN
    createSale([items |-> items, salespersonId |-> "s1", discount |-> discount,
                freight |-> freight, otherCosts |-> 0,
                payments |-> [m \in Methods |-> IF m = "cash" THEN total ELSE 0],
                installments |-> 1,
                totalValue |-> total, status |-> status])

SeedSales ==
    { SeedSale(<<SeedItem("p1", 2)>>, 0, 0, "PENDING"),
      SeedSale(<<SeedItem("p1", 1), SeedItem("p1", 2)>>, 60, 10, "PENDING"),
      SeedSale(<<SeedItem("p2", 1)>>, 60, 0, "PENDING"),
      SeedSale(<<SeedItem("p1", 1), SeedItem("p2", 1)>>, 0, 0, "BUDGET") }

InitStore ==
    /\ stock = SeedStock
    /\ sales \in [1..MaxSeeded -> SeedSales]
    /\ editingSaleId = [c \in Clients |-> 0]
    /\ isCashierConfirming = [c \in Clients |-> FALSE]
    /\ cart = [c \in Clients |-> <<>>]
    /\ posDiscount = [c \in Clients |-> 0]
    /\ posFreight = [c \in Clients |-> 0]
    /\ posOther = [c \in Clients |-> 0]
    /\ payments = [c \in Clients |-> NoPayments]
    /\ selectedSellerId = [c \in Clients |-> ""]
    /\ saleToCancel = [c \in Clients |-> 0]
    /\ pc = [c \in Clients |-> "idle"]
    /\ call = [c \in Clients |-> NoCall]
    /\ outcome = NoOutcome
    /\ editModalOpen = [c \in Clients |-> FALSE]
    /\ editItemIndex = [c \in Clients |-> 0]
    /\ editItemData = [c \in Clients |-> NoItem]
    /\ discountModalOpen = [c \in Clients |-> FALSE]
    /\ tempDiscountValue = [c \in Clients |-> 0]
    /\ tempDiscountPercent = [c \in Clients |-> NoPercent]
    /\ creditInstallments = [c \in Clients |-> 1]

NextStore ==
    \E c \in StoreClients :
        \/ \E id \in DOMAIN sales : handleCashierOpenSale(c, id)
        \/ handleCashierFinalize(c)
        \/ completeSaleFetch(c)
        \/ completeSaleRead(c)
        \/ completeSaleWrite(c)
        \/ completeSaleFinal(c)
        \/ \E id \in DOMAIN sales : requestCancelSale(c, id)
        \/ cancelSaleFetch(c)
        \/ cancelSaleRead(c)
        \/ cancelSaleWrite(c)
        \/ cancelSaleFinal(c)

SpecStore == InitStore /\ [][NextStore]_vars

\* The seeded store in the behaviours in which no completeSale call fails on
\* the stock of an item.
NextStoreNoFailure ==
    \E c \in StoreClients :
        \/ \E id \in DOMAIN sales : handleCashierOpenSale(c, id)
        \/ handleCashierFinalize(c)
        \/ completeSaleFetch(c) /\ outcome'.msg # "InsufficientStock"
        \/ completeSaleRead(c) /\ outcome'.msg # "InsufficientStock"
        \/ completeSaleWrite(c)
        \/ completeSaleFinal(c)
        \/ \E id \in DOMAIN sales : requestCancelSale(c, id)
        \/ cancelSaleFetch(c)
        \/ cancelSaleRead(c)
        \/ cancelSaleWrite(c)
        \/ cancelSaleFinal(c)

SpecStoreNoFailure == InitStore /\ [][NextStoreNoFailure]_vars

\* ------------------------------------------------------- store failures
\* completeSale step 3 when the store answers the decrement with an error: the
\* update's result is not read, so the loop goes on with the stock as it was
completeSaleWriteError(c) ==
    /\ pc[c] = "cs_write"
    /\ call' = [call EXCEPT ![c].idx = @ + 1, ![c].prodStock = 0]
    /\ pc' = [pc EXCEPT ![c] =
                IF call[c].idx = Len(call[c].finalItems) THEN "cs_final" ELSE "cs_read"]
    /\ outcome' = Outcome(c, "StoreError", call[c].idx)
    /\ UNCHANGED <<storeVars, posVars, saleToCancel, editVars, discountVars>>

NextFault ==
    \/ NextStore
    \/ \E c \in StoreClients : completeSaleWriteError(c)

SpecFault == InitStore /\ [][NextFault]_vars

\* ------------------------------------------------ two managers' sessions
\* The seeded store under two sessions of managers: one confirms sales at the
\* cashier, both cancel sales from the history table.
NextManagers ==
    \E c \in ManagerClients :
        \/ \E id \in DOMAIN sales : c = "c1" /\ handleCashierOpenSale(c, id)
        \/ handleCashierFinalize(c)
        \/ completeSaleFetch(c)
        \/ completeSaleRead(c)
        \/ completeSaleWrite(c)
        \/ completeSaleFinal(c)
        \/ \E id \in DOMAIN sales : requestCancelSale(c, id)
        \/ cancelSaleFetch(c)
        \/ cancelSaleRead(c)
        \/ cancelSaleWrite(c)
        \/ cancelSaleFinal(c)

SpecManagers == InitStore /\ [][NextManagers]_vars

\* ------------------------------------------------------ one session's cart
\* One user (a manager: salesperson and cashier) works on carts: lines are
\* added, edited and removed, discounts and payments are entered, the saved
\* sale is loaded for editing or confirmed at the cashier.  The inputs are
\* richer than those of Spec; nothing is saved, so the store changes only
\* through the confirmation of the seeded sale.  SpecCart has the item edit
\* dialog and no payment entry, SpecPay the payment fields and no item edits.
CartClients == {"c1"}
CartDiscValues == {5, 60}
CartPayValues == {0, 50, 102}
EditPrices == {0, 50, 97}
EditQtys == {0, 2}
CartStock == [p \in Products |-> IF p = "p1" THEN 3 ELSE 1]
CartSales == << SeedSale(<<SeedItem("p1", 1), SeedItem("p1", 2)>>, 60, 10, "PENDING") >>

InitCart ==
    /\ stock = CartStock
    /\ sales = CartSales
    /\ editingSaleId = [c \in Clients |-> 0]
    /\ isCashierConfirming = [c \in Clients |-> FALSE]
    /\ cart = [c \in Clients |-> <<>>]
    /\ posDiscount = [c \in Clients |-> 0]
    /\ posFreight = [c \in Clients |-> 0]
    /\ posOther = [c \in Clients |-> 0]
    /\ payments = [c \in Clients |-> NoPayments]
    /\ selectedSellerId = [c \in Clients |-> ""]
    /\ saleToCancel = [c \in Clients |-> 0]
    /\ pc = [c \in Clients |-> "idle"]
    /\ call = [c \in Clients |-> NoCall]
    /\ outcome = NoOutcome
    /\ editModalOpen = [c \in Clients |-> FALSE]
    /\ editItemIndex = [c \in Clients |-> 0]
    /\ editItemData = [c \in Clients |-> NoItem]
    /\ discountModalOpen = [c \in Clients |-> FALSE]
    /\ tempDiscountValue = [c \in Clients |-> 0]
    /\ tempDiscountPercent = [c \in Clients |-> NoPercent]
    /\ creditInstallments = [c \in Clients |-> 1]

NextCart ==
    \E c \in CartClients :
        \/ \E p \in Products, qty \in 1..MaxCartQty :
              Len(cart[c]) < MaxCartLines /\ handleAddItem(c, p, qty)
        \/ \E idx \in DOMAIN cart[c] : handleRemoveItem(c, idx)
        \/ \E idx \in DOMAIN cart[c] : openEditModal(c, idx)
        \/ \E v \in EditPrices : setEditItemUnitPrice(c, v)
        \/ \E q \in EditQtys : setEditItemQuantity(c, q)
        \/ saveEditItem(c)
        \/ \E v \in CartDiscValues, t \in TokenLens : confirmDiscount(c, v, t)
        \/ clearDiscount(c)
        \/ \E id \in DOMAIN sales : handleEditSale(c, id)
        \/ \E id \in DOMAIN sales : handleCashierOpenSale(c, id)
        \/ cancelEditing(c)
        \/ handleCashierFinalize(c)
        \/ completeSaleFetch(c)
        \/ completeSaleRead(c)
        \/ completeSaleWrite(c)
        \/ completeSaleFinal(c)

SpecCart == InitCart /\ [][NextCart]_vars

NextPay ==
    \E c \in CartClients :
        \/ \E p \in Products, qty \in 1..MaxCartQty :
              Len(cart[c]) < MaxCartLines /\ handleAddItem(c, p, qty)
        \/ \E idx \in DOMAIN cart[c] : handleRemoveItem(c, idx)
        \/ \E v \in CartDiscValues, t \in TokenLens : confirmDiscount(c, v, t)
        \/ clearDiscount(c)
        \/ \E m \in Methods, v \in CartPayValues : handlePaymentChange(c, m, v)
        \/ \E m \in Methods : handlePaymentKeyDown(c, m)
        \/ \E id \in DOMAIN sales : handleCashierOpenSale(c, id)
        \/ cancelEditing(c)
        \/ handleCashierFinalize(c)
        \/ completeSaleFetch(c)
        \/ completeSaleRead(c)
        \/ completeSaleWrite(c)
        \/ completeSaleFinal(c)

SpecPay == InitCart /\ [][NextPay]_vars

\* ------------------------------------------------- one session's discount
\* The discount dialog over carts of p1 lines: the seller adds and removes
\* lines, cuts a line's price in the edit dialog, opens the discount dialog,
\* types into its three fields, and confirms or closes it.
DiscountProducts == {"p1"}
DiscPercents == {1, 5, 10}
DiscTotals == {0, 95, 500}

NextDiscount ==
    \E c \in CartClients :
        \/ \E p \in DiscountProducts, qty \in 1..MaxCartQty :
              Len(cart[c]) < MaxCart /\ handleAddItem(c, p, qty)
        \/ \E idx \in DOMAIN cart[c] : handleRemoveItem(c, idx)
        \/ \E idx \in DOMAIN cart[c] : openEditModal(c, idx)
        \/ \E v \in EditPrices : setEditItemUnitPrice(c, v)
        \/ saveEditItem(c)
        \/ openDiscountModal(c)
        \/ \E v \in CartDiscValues : handleDiscountValueChange(c, v)
        \/ \E pct \in DiscPercents : handleDiscountPercentChange(c, pct)
        \/ \E t \in DiscTotals : handleDiscountTotalChange(c, t)
        \/ \E t \in TokenLens :
              discountModalOpen[c] /\ confirmDiscount(c, tempDiscountValue[c], t)
        \/ closeDiscountModal(c)
        \/ clearDiscount(c)

SpecDiscount == InitCart /\ [][NextDiscount]_vars

\* ---------------------------------------------- one session's installments
\* One user sells, saves, reopens and confirms sales, choosing the number of
\* installments of the credit payment on the way; the store starts empty.
InstallmentValues == {1, 3}

NextInstallments ==
    \E c \in CartClients :
        \/ \E p \in Products, qty \in 1..MaxQty :
              Len(cart[c]) < MaxCart /\ handleAddItem(c, p, qty)
        \/ \E idx \in DOMAIN cart[c] : handleRemoveItem(c, idx)
        \/ \E v \in CartDiscValues, t \in TokenLens : confirmDiscount(c, v, t)
        \/ clearDiscount(c)
        \/ \E n \in InstallmentValues : setCreditInstallments(c, n)
        \/ \E v \in SellerIds \cup {""} : setSelectedSellerId(c, v)
        \/ \E m \in PosMethods : handlePaymentKeyDown(c, m)
        \/ \E id \in DOMAIN sales : handleEditSale(c, id)
        \/ \E id \in DOMAIN sales : handleCashierOpenSale(c, id)
        \/ cancelEditing(c)
        \/ \E b \in BOOLEAN : handleSubmitSale(c, b)
        \/ handleCashierFinalize(c)
        \/ completeSaleFetch(c)
        \/ completeSaleRead(c)
        \/ completeSaleWrite(c)
        \/ completeSaleFinal(c)

SpecInstallments == Init /\ [][NextInstallments]_vars

\* ------------------------------------------------------------------ claims
\* C1: once a sale's stored status is CANCELLED no later step changes it.
C1_CancelledIsFinal ==
    [][\A i \in DOMAIN sales :
          sales[i].status = "CANCELLED" => sales'[i].status = "CANCELLED"]_vars

\* C2: a sale whose stored status is COMPLETED never returns to BUDGET or
\* PENDING; the only status it can move to is CANCELLED.
C2_CompletedOnlyToCancelled ==
    [][\A i \in DOMAIN sales :
          sales[i].status = "COMPLETED"
             => sales'[i].status \in {"COMPLETED", "CANCELLED"}]_vars

\* C3: when completeSale loads a sale whose stored status is COMPLETED the call
\* ends with AlreadyCompleted, and that step leaves every product's stock and
\* every sale row (items, prices, discount) as they were.
C3_AlreadyCompletedChangesNothing ==
    [][\A c \in Clients :
          (/\ pc[c] = "cs_fetch"
           /\ pc'[c] # "cs_fetch"
           /\ sales[call[c].saleId].status = "COMPLETED")
             => /\ outcome' = Outcome(c, "AlreadyCompleted", 0)
                /\ pc'[c] = "idle"
                /\ call'[c] = NoCall
                /\ stock' = stock
                /\ sales' = sales]_vars

\* a completeSale call has just been rejected on a sale that is COMPLETED
C3_Witness ==
    /\ outcome.msg = "AlreadyCompleted"
    /\ \E i \in DOMAIN sales : sales[i].status = "COMPLETED"

\* C4: when completeSale re-reads a product whose stock is below the item's
\* quantity the call ends with InsufficientStock for that item, no decrement is
\* written for it, and the stock written for earlier items of the call stays;
\* a decrement is only written after a re-read that found enough stock.
C4_InsufficientStockStopsCall ==
    [][\A c \in Clients :
          LET k == call[c]
              item == k.finalItems[k.idx]
          IN  /\ (pc[c] = "cs_read" /\ pc'[c] # "cs_read")
                    => /\ stock' = stock
                       /\ sales' = sales
                       /\ IF stock[item.productId] < item.quantity
                          THEN /\ outcome' = Outcome(c, "InsufficientStock", k.idx)
                               /\ pc'[c] = "idle"
                               /\ call'[c] = NoCall
                          ELSE /\ pc'[c] = "cs_write"
                               /\ call'[c].prodStock = stock[item.productId]
              /\ (pc[c] = "cs_write" /\ pc'[c] # "cs_write")
                    => /\ k.prodStock >= item.quantity
                       /\ stock' = [stock EXCEPT ![item.productId] =
                                                    k.prodStock - item.quantity]]_vars

\* a completeSale call failed on its second item after decrementing for the first
C4_Witness ==
    /\ outcome.msg = "InsufficientStock"
    /\ outcome.at > 1
    /\ \E p \in Products : stock[p] < SeedStock[p]

\* C5: cancelSale of a sale loaded as PENDING or BUDGET writes no stock at all;
\* cancelSale of a sale loaded as COMPLETED writes, for every item in turn, the
\* stock it has just read for the item's product plus the item's quantity; in
\* both cases the last step sets the status to CANCELLED and nothing else.
C5_CancelFrame ==
    [][\A c \in Clients :
          LET k == call[c] IN
          /\ (pc[c] = "idle" /\ pc'[c] \in {"cn_read", "cn_final"})
                => /\ stock' = stock
                   /\ sales' = sales
                   /\ pc'[c] = "cn_read" => sales[saleToCancel[c]].status = "COMPLETED"
          /\ (pc[c] = "cn_read" /\ pc'[c] # "cn_read")
                => /\ stock' = stock
                   /\ sales' = sales
                   /\ k.status = "COMPLETED"
                   /\ call'[c].prodStock = stock[k.items[k.idx].productId]
          /\ (pc[c] = "cn_write" /\ pc'[c] # "cn_write")
                => /\ k.status = "COMPLETED"
                   /\ stock' = [stock EXCEPT ![k.items[k.idx].productId] =
                                                k.prodStock + k.items[k.idx].quantity]
                   /\ sales' = sales
                   /\ call'[c].idx = k.idx + 1
          /\ (pc[c] = "cn_final" /\ pc'[c] # "cn_final")
                => /\ stock' = stock
                   /\ sales' = [sales EXCEPT ![k.saleId].status = "CANCELLED"]
                   /\ k.idx = IF k.status = "COMPLETED" THEN Len(k.items) + 1 ELSE 1]_vars

\* a completed two-item sale has been cancelled and both items were restocked
C5_Witness ==
    /\ outcome.msg = "cancelled"
    /\ outcome.at = 2
    /\ \E i \in DOMAIN sales : sales[i].status = "CANCELLED" /\ sales[i].finishedAt

\* C6 as stated: a sale's finishedAt is set if and only if its status is COMPLETED.
C6_FinishedAtIffCompleted ==
    \A i \in DOMAIN sales : sales[i].finishedAt <=> sales[i].status = "COMPLETED"

\* C6, amended: a COMPLETED sale has finishedAt set; a new sale has it unset;
\* only a step that makes the sale COMPLETED sets it; no step clears it, so a
\* sale cancelled after completion keeps it.
C6_FinishedAtSetByCompletionOnly ==
    [][\A i \in DOMAIN sales' :
          /\ sales'[i].status = "COMPLETED" => sales'[i].finishedAt
          /\ i \notin DOMAIN sales => ~sales'[i].finishedAt
          /\ i \in DOMAIN sales =>
                /\ sales[i].finishedAt => sales'[i].finishedAt
                /\ (~sales[i].finishedAt /\ sales'[i].finishedAt)
                      => sales'[i].status = "COMPLETED"]_vars

\* a sale that was completed and then cancelled still carries its finishedAt
C6_Witness ==
    /\ outcome.msg = "cancelled"
    /\ outcome.at > 0
    /\ \E i \in DOMAIN sales : sales[i].status = "CANCELLED" /\ sales[i].finishedAt

\* C7 as stated: every sale that reached COMPLETED has stored discount 0.
C7_CompletedHasNoDiscount ==
    \A i \in DOMAIN sales : sales[i].status = "COMPLETED" => sales[i].discount = 0

\* C7, amended: when completeSale finalizes a sale loaded with discount D > 0
\* and item subtotal S > 0, every stored unit price is the loaded one times
\* (S - D) / S, every item total is the new unit price times the quantity, the
\* stored discount is 0, and the loaded prices had not been scaled before; with
\* D = 0 or S = 0 the items and the discount are stored as loaded.  So a
\* COMPLETED sale has stored discount 0 unless its item subtotal is 0.
C7_DiscountRedistributedOnce ==
    [][/\ \A c \in Clients :
             (pc[c] = "cs_final" /\ pc'[c] # "cs_final") =>
                LET k == call[c]
                    S == ItemsSubTotal(k.items)
                    d == ItemsDen(k.items)
                    new == sales'[k.saleId]
                IN  IF k.discount > 0 /\ S > 0
                    THEN /\ new.discount = 0
                         /\ Len(new.items) = Len(k.items)
                         /\ \A i \in DOMAIN k.items :
                               /\ k.items[i].den = 1
                               /\ new.items[i].den > 0
                               /\ new.items[i].unitPrice * k.items[i].den * S
                                    = k.items[i].unitPrice * (S - k.discount * d)
                                                           * new.items[i].den
                               /\ new.items[i].total
                                    = new.items[i].unitPrice * new.items[i].quantity
                               /\ new.items[i].quantity = k.items[i].quantity
                               /\ new.items[i].productId = k.items[i].productId
                    ELSE /\ new.items = k.items
                         /\ new.discount = k.discount
       /\ \A i \in DOMAIN sales' :
             sales'[i].status = "COMPLETED"
                => sales'[i].discount = 0 \/ ItemsSubTotal(sales'[i].items) = 0]_vars

\* a sale saved with a discount was completed: its prices are scaled, discount 0
C7_Witness ==
    /\ outcome.msg = "completed"
    /\ \E i \in DOMAIN sales :
          /\ sales[i].status = "COMPLETED"
          /\ sales[i].discount = 0
          /\ Len(sales[i].items) = 2
          /\ \A n \in DOMAIN sales[i].items :
                sales[i].items[n].unitPrice < sales[i].items[n].originalPrice
                                                * sales[i].items[n].den

\* C8: the stored totalValue of every sale is
\* max(0, sum of item totals - discount + freight + otherCosts).
C8_StoredTotalIsGrandTotal ==
    \A i \in DOMAIN sales :
       LET s == sales[i]
           d == ItemsDen(s.items)
       IN  s.totalValue * d
             = Max(0, ItemsSubTotal(s.items) + (s.freight + s.otherCosts - s.discount) * d)

\* C9: every COMPLETED sale with totalValue > 0 has payments that sum to
\* within 0.05 of its totalValue.
C9_CompletedIsPaid ==
    \A i \in DOMAIN sales :
       (sales[i].status = "COMPLETED" /\ sales[i].totalValue > 0)
          => Abs(SumFun(sales[i].payments, Methods) - sales[i].totalValue)
                <= PaymentTolerance

\* C10: the cashier's confirmation goes on to updateSale and completeSale only
\* if grandTotal = 0, or totalPaid > 0 and |totalPaid - grandTotal| <= 0.05;
\* otherwise it ends with PaymentMismatch and the store is unchanged.
C10_ConfirmationNeedsPayment ==
    [][\A c \in Clients :
          /\ (pc[c] = "idle" /\ pc'[c] = "cs_fetch")
                => \/ totalGeneral(c) = 0
                   \/ /\ totalPaid(c) > 0
                      /\ Abs(totalPaid(c) - totalGeneral(c)) <= PaymentTolerance
          /\ (pc[c] = "idle" /\ outcome' = Outcome(c, "PaymentMismatch", 0))
                => stock' = stock /\ sales' = sales]_vars

QuantityOf(items, p) ==
    SumSeq([i \in 1..Len(items) |-> IF items[i].productId = p THEN items[i].quantity ELSE 0])

\* C12: completeSale writes the stock it read minus the quantity, whatever the
\* stock is at the write, and the write cannot fail the call.  So when two
\* calls for different sales have read the same stock of one product before
\* either wrote, the first write leaves the second call due to write from the
\* same read value: the second write overwrites the first decrement.
C12_StaleStockWrite ==
    [][\A c \in Clients :
          (pc[c] = "cs_write" /\ pc'[c] # "cs_write") =>
             LET k == call[c]
                 p == k.finalItems[k.idx].productId
             IN  /\ stock' = [stock EXCEPT ![p] = k.prodStock - k.finalItems[k.idx].quantity]
                 /\ pc'[c] \in {"cs_read", "cs_final"}
                 /\ \A d \in Clients \ {c} :
                       (/\ pc[d] = "cs_write"
                        /\ call[d].saleId # k.saleId
                        /\ call[d].finalItems[call[d].idx].productId = p
                        /\ call[d].prodStock = k.prodStock)
                          => /\ pc'[d] = "cs_write"
                             /\ call'[d] = call[d]]_vars

\* two different sales are both COMPLETED and a product's stock went down by
\* less than the quantity the two sales sold of it
C12_Witness ==
    /\ outcome.msg = "completed"
    /\ \A i \in DOMAIN sales : sales[i].status = "COMPLETED"
    /\ \E p \in Products :
          SeedStock[p] - stock[p] < SumSeq([i \in 1..Len(sales) |-> QuantityOf(sales[i].items, p)])

\* C13: when the store reports a failure on a stock decrement of completeSale
\* the call is aborted at that step: it makes no further step, so no later
\* item is decremented and the sale is not marked COMPLETED; the stock written
\* before stays.
C13_WriteFailureAborts ==
    [][\A c \in Clients :
          (pc[c] = "cs_write" /\ outcome' = Outcome(c, "StoreError", call[c].idx))
             => /\ pc'[c] = "idle"
                /\ call'[c] = NoCall
                /\ stock' = stock
                /\ sales' = sales]_vars

\* C14: the stock of every product is non-negative in every reachable state,
\* under every interleaving of completeSale and cancelSale calls.
C14_StockNonNegative ==
    \A p \in Products : stock[p] >= 0

\* completions and a cancellation have run and a product is sold out
C14_Witness ==
    /\ \E p \in Products : SeedStock[p] > 0 /\ stock[p] = 0
    /\ \E i \in DOMAIN sales : sales[i].status = "COMPLETED"
    /\ \E i \in DOMAIN sales : sales[i].status = "CANCELLED" /\ sales[i].finishedAt

\* C15: while the applied global discount is greater than 0 the confirmation
\* of an item edit (saveEditItem, the only step that closes the edit dialog)
\* leaves the cart unchanged, whatever the order in which the dialog was
\* opened and the discount was confirmed or loaded with a saved sale.
C15_NoItemEditUnderDiscount ==
    [][\A c \in Clients :
          (posDiscount[c] > 0 /\ editModalOpen[c] /\ ~editModalOpen'[c])
             => cart'[c] = cart[c]]_vars

\* C16: confirmDiscount with a proposed amount v and a token of length t, where
\* totalDiscountPct = 100 * (originalValue - subTotal + v) / originalValue (0
\* when originalValue is 0): if totalDiscountPct > 6 and t < 3 it ends with
\* AuthorizationRequired and the applied discount is unchanged; otherwise the
\* applied discount becomes v.  Nothing else of the cart or the store changes.
C16_DiscountAuthorization ==
    [][\A c \in Clients : \A v \in CartDiscValues \cup DiscValues : \A t \in TokenLens :
          confirmDiscount(c, v, t) =>
             LET originalValue == totalOriginalValue(c)
                 discountFromItemEdits == originalValue - subTotal(c)
                 over == /\ originalValue > 0
                         /\ 100 * (discountFromItemEdits + v) > 6 * originalValue
             IN  /\ IF over /\ t < 3
                    THEN /\ outcome' = Outcome(c, "AuthorizationRequired", 0)
                         /\ posDiscount' = posDiscount
                    ELSE /\ posDiscount'[c] = v
                         /\ outcome'.msg # "AuthorizationRequired"
                 /\ cart' = cart
                 /\ sales' = sales]_vars

\* a proposed discount was refused with item-level price cuts in the cart: the
\* item cuts and the proposal together exceed 6 % although the proposal alone
\* does not
C16_Witness ==
    /\ outcome.msg = "AuthorizationRequired"
    /\ LET c == outcome.client IN
       /\ subTotal(c) < totalOriginalValue(c)
       /\ 100 * 5 <= 6 * totalOriginalValue(c)
       /\ 100 * (totalOriginalValue(c) - subTotal(c) + 5) > 6 * totalOriginalValue(c)

\* C17: setting the amount of one payment method to a value is refused, with
\* every amount unchanged, when the sum over all methods would exceed the grand
\* total by more than 0.001; otherwise only that amount changes, and when the
\* sum equals the grand total exactly, nothing remains to be paid and the
\* payment check of the completion (difference of at most 0.05) passes.
C17_PaymentLimit ==
    [][UNCHANGED <<pc, cart, posDiscount, editingSaleId>> =>
       \A c \in Clients : \A key \in Methods :
       \A value \in CartPayValues \cup {payments[c][key] + remaining(c)} :
          handlePaymentChange(c, key, value) =>
             LET others == SumFun(payments[c], Methods \ {key})
                 sum == others + value
             IN  IF sum > totalGeneral(c) + 1
                 THEN /\ payments' = payments
                      /\ outcome' = Outcome(c, "ExceedsRemaining", 0)
                 ELSE /\ payments'[c][key] = value
                      /\ \A m \in Methods \ {key} : payments'[c][m] = payments[c][m]
                      /\ sum = totalGeneral(c) =>
                            /\ Max(0, totalGeneral(c) - SumFun(payments'[c], Methods)) = 0
                            /\ Abs(SumFun(payments'[c], Methods) - totalGeneral(c)) <= 50]_vars

\* two methods carry a positive amount each and together pay a positive grand
\* total exactly
C17_Witness ==
    \E c \in Clients :
       /\ totalGeneral(c) > 0
       /\ \A m \in Methods : payments[c][m] > 0
       /\ totalPaid(c) = totalGeneral(c)
       /\ remaining(c) = 0


\* the line that a confirmed edit of session c writes, and the original price
\* the edit is measured against
EditedLine(c) ==
    IF editItemIndex[c] <= Len(cart[c]) THEN editItemIndex[c] ELSE Len(cart[c]) + 1

EditConfirmed(c) ==
    /\ saveEditItem(c)
    /\ editItemIndex[c] # 0
    /\ editItemData[c].quantity # 0

\* C18 as stated: an edit whose submitted unit price is below 0.94 * originalPrice
\* always stores exactly 0.94 * originalPrice, for every submitted price.
C18_AlwaysClampedToFloor ==
    [][\A c \in Clients :
          (EditConfirmed(c)
             /\ editItemData[c].unitPrice * 100 < 94 * editItemData[c].originalPrice)
          => cart'[c][EditedLine(c)].unitPrice * 100 = 94 * editItemData[c].originalPrice]_vars

\* C18 amended: an edit whose submitted unit price is above 0 and below
\* 0.94 * originalPrice stores exactly 0.94 * originalPrice; a submitted price
\* of 0 (or an empty field) stores the original price; and in every reachable
\* state no cart line has a unit price below 94 % of its original price.
C18_PriceFloor ==
    /\ [](\A c \in Clients : \A i \in 1..Len(cart[c]) :
            cart[c][i].unitPrice * 100 >= 94 * cart[c][i].originalPrice * cart[c][i].den)
    /\ [][\A c \in Clients :
            EditConfirmed(c) =>
               LET submitted == editItemData[c].unitPrice
                   original == editItemData[c].originalPrice
                   stored == cart'[c][EditedLine(c)].unitPrice
               IN  /\ (submitted > 0 /\ submitted * 100 < 94 * original)
                         => stored * 100 = 94 * original
                   /\ (submitted = 0 /\ original > 0) => stored = original
                   /\ submitted * 100 >= 94 * original /\ submitted > 0
                         => stored = submitted]_vars

\* a submitted price below the floor was raised to the floor, and the line now
\* stands at exactly 94 % of its original price
C18_Witness ==
    /\ outcome.msg = "PriceAdjusted"
    /\ \E i \in 1..Len(cart[outcome.client]) :
          LET item == cart[outcome.client][i] IN
          /\ item.originalPrice > 0
          /\ item.unitPrice * 100 = 94 * item.originalPrice

\* C19: every line item, in a cart or in a stored sale, has total = quantity *
\* unitPrice: after handleAddItem, after saveEditItem and after the discount
\* redistribution of completeSale.
C19_TotalIsQuantityTimesPrice ==
    /\ \A c \in Clients : \A i \in 1..Len(cart[c]) :
          cart[c][i].total = cart[c][i].quantity * cart[c][i].unitPrice
    /\ \A id \in 1..Len(sales) : \A i \in 1..Len(sales[id].items) :
          sales[id].items[i].total =
             sales[id].items[i].quantity * sales[id].items[i].unitPrice

\* a completed sale holds redistributed items while the cart holds an added
\* line and a line whose price and quantity were edited
C19_Witness ==
    /\ \E id \in 1..Len(sales) :
          /\ sales[id].status = "COMPLETED"
          /\ \E i \in 1..Len(sales[id].items) : sales[id].items[i].den > 1
    /\ \E c \in Clients : \E i, j \in 1..Len(cart[c]) :
          /\ cart[c][i].unitPrice = cart[c][i].originalPrice
          /\ cart[c][i].quantity > 0
          /\ cart[c][j].unitPrice < cart[c][j].originalPrice
          /\ cart[c][j].quantity = 2

\* C20: adding quantity qty of product p fails with InsufficientStock and leaves
\* the cart unchanged if the product's stock is below the quantity of p already
\* in the cart plus qty; otherwise exactly one line is appended, for p and qty,
\* with originalPrice = the product's price, and the existing lines are
\* unchanged.
C20_AddItem ==
    [][\A c \in Clients : \A p \in Products : \A qty \in 1..MaxCartQty :
          handleAddItem(c, p, qty) =>
             IF stock[p] < QuantityOf(cart[c], p) + qty
             THEN /\ outcome' = Outcome(c, "InsufficientStock", 0)
                  /\ cart' = cart
             ELSE /\ Len(cart'[c]) = Len(cart[c]) + 1
                  /\ \A i \in 1..Len(cart[c]) : cart'[c][i] = cart[c][i]
                  /\ cart'[c][Len(cart'[c])].productId = p
                  /\ cart'[c][Len(cart'[c])].quantity = qty
                  /\ cart'[c][Len(cart'[c])].originalPrice = ProductPrice[p]
                  /\ outcome'.msg # "InsufficientStock"]_vars

\* an add was refused although the store holds stock of every product in the
\* cart: the cart already takes part of it
C20_Witness ==
    /\ outcome.msg = "InsufficientStock"
    /\ LET c == outcome.client IN
       /\ Len(cart[c]) = 1
       /\ cart[c][1].productId = "p1"
       /\ cart[c][1].quantity = 2
       /\ stock["p1"] = 3

\* C21: within one completeSale call the steps run in order.  The call issues
\* the decrement of an item only from the state its re-check of that very item
\* left, a re-check that found stock covering the item's quantity, and only
\* then moves on to the next item.  A sale becomes COMPLETED only by the last
\* step of a call that has gone through the re-check and the decrement of every
\* one of its items.  Every step of a call before that last one, a failing
\* re-check included, leaves the sale records as they are (status, items,
\* discount, finishedAt, cashier).
C21_StepsInOrder ==
    [][/\ \A c \in Clients :
            LET k == call[c]
                item == k.finalItems[k.idx]
            IN  /\ (pc[c] = "cs_read" /\ pc'[c] # "cs_read")
                      => /\ pc'[c] \in {"cs_write", "idle"}
                         /\ pc'[c] = "cs_write" =>
                               /\ call'[c].idx = k.idx
                               /\ call'[c].prodStock >= item.quantity
                /\ (pc[c] = "cs_write" /\ pc'[c] # "cs_write")
                      => /\ k.prodStock >= item.quantity
                         /\ stock'[item.productId] = k.prodStock - item.quantity
                         /\ call'[c].idx = k.idx + 1
                         /\ pc'[c] = IF k.idx < Len(k.finalItems)
                                     THEN "cs_read" ELSE "cs_final"
       /\ \A id \in 1..Len(sales) :
            (sales[id].status # "COMPLETED" /\ sales'[id].status = "COMPLETED") =>
               \E c \in Clients :
                  /\ pc[c] = "cs_final"
                  /\ pc'[c] = "idle"
                  /\ call[c].saleId = id
                  /\ call[c].idx = Len(call[c].finalItems) + 1
                  /\ Len(call[c].finalItems) = Len(sales[id].items)
       /\ \A c \in Clients :
            (pc[c] \in {"cs_fetch", "cs_read", "cs_write"} /\ pc'[c] # pc[c])
               => sales' = sales
       /\ outcome'.msg = "InsufficientStock" /\ outcome' # outcome
               => sales' = sales]_vars

\* C22: after a step of any one of the discount dialog's three fields (amount,
\* total percentage, total with discount) the values the dialog shows agree:
\* percentage * originalValue = 100 * (discountFromItemEdits + amount), the
\* percentage being 0 when originalValue is 0, and the total with discount is
\* the subtotal minus the amount.
C22_DialogConsistent ==
    [][\A c \in Clients :
          (\/ \E v \in CartDiscValues : handleDiscountValueChange(c, v)
           \/ \E pct \in DiscPercents : handleDiscountPercentChange(c, pct)
           \/ \E t \in DiscTotals : handleDiscountTotalChange(c, t))
          => LET originalValue == totalOriginalValue(c)
                 amount == tempDiscountValue'[c]
                 percentage == tempDiscountPercent'[c]
             IN  /\ IF originalValue = 0
                    THEN percentage.num = 0
                    ELSE percentage.num * originalValue =
                           100 * (originalValue - subTotal(c) + amount) * percentage.den
                 /\ totalComDescontoShown(c)' = subTotal(c) - amount]_vars

\* C23: while a global discount is active in a view (posDiscount > 0) the
\* view's installment count is 1, so no step changes it and applying a discount
\* resets it to 1; and every stored sale with discount > 0 has installments = 1.
C23_DiscountMeansOneInstallment ==
    /\ \A c \in Clients : posDiscount[c] > 0 => creditInstallments[c] = 1
    /\ \A id \in 1..Len(sales) : sales[id].discount > 0 => sales[id].installments = 1

\* a sale stored with 3 installments and no discount is open in a view that
\* has since applied a discount: the view's installments are back at 1
C23_Witness ==
    \E c \in Clients :
       /\ editingSaleId[c] # 0
       /\ sales[editingSaleId[c]].installments = 3
       /\ sales[editingSaleId[c]].discount = 0
       /\ posDiscount[c] > 0
       /\ creditInstallments[c] = 1

\* C24: when two completeSale calls for the same sale overlap, the quantity of
\* an item of the sale is deducted from the stock at most once: a call writes
\* the decrement of an item only if the sale is not yet COMPLETED in the store
\* and no other call for the same sale has already written the decrement of
\* that item.
C24_DeductedOnce ==
    [][\A c \in Clients :
          (pc[c] = "cs_write" /\ call'[c].idx = call[c].idx + 1 /\ stock' # stock) =>
             /\ sales[call[c].saleId].status # "COMPLETED"
             /\ \A d \in Clients \ {c} :
                   (pc[d] \in {"cs_read", "cs_write", "cs_final"}
                      /\ call[d].saleId = call[c].saleId)
                   => call[d].idx <= call[c].idx]_vars

\* C25: confirmDiscount lets a discount through without a token only when the
\* effective total discount, 100 * (originalValue - subtotal + discount) /
\* originalValue, is at most 6 (C16), and it treats a discount within that limit
\* the same with and without a token.  The claim is therefore that the steps
\* that change the cart under an applied discount (handleAddItem,
\* handleRemoveItem, saveEditItem) keep the effective percentage at most 6
\* when it was at most 6 before; a cart without original value counts as
\* within the limit.
C25_LimitKeptByCartSteps ==
    [][\A c \in Clients :
          LET WithinLimit(items, discount) ==
                LET originalValue ==
                      SumSeq([i \in 1..Len(items) |->
                                items[i].quantity *
                                  (IF items[i].originalPrice # 0
                                   THEN items[i].originalPrice ELSE items[i].unitPrice)])
                IN  \/ originalValue = 0
                    \/ 100 * (originalValue - ItemsSubTotal(items) + discount)
                          <= 6 * originalValue
          IN  (/\ posDiscount[c] > 0
               /\ posDiscount'[c] = posDiscount[c]
               /\ editingSaleId'[c] = editingSaleId[c]
               /\ cart'[c] # cart[c]
               /\ WithinLimit(cart[c], posDiscount[c]))
              => WithinLimit(cart'[c], posDiscount'[c])]_vars

\* C26: while the products' stock is as the view first saw it and the cart was
\* built in the view itself (no saved sale is open), the quantity of each
\* product over the lines of the cart is at most the product's stock.
C26_CartWithinStock ==
    \A c \in Clients :
       (stock = CartStock /\ editingSaleId[c] = 0) =>
          \A p \in Products : QuantityOf(cart[c], p) <= stock[p]

\* C27: the discount applied in a view never exceeds the subtotal of the view's
\* cart, a stored sale's discount never exceeds the subtotal of its items, and
\* so every item of a COMPLETED sale has a unit price and a total of at least 0.
C27_DiscountWithinSubtotal ==
    /\ \A c \in Clients : posDiscount[c] <= subTotal(c)
    /\ \A id \in 1..Len(sales) :
          /\ sales[id].discount * ItemsDen(sales[id].items) <= ItemsSubTotal(sales[id].items)
          /\ sales[id].status = "COMPLETED" =>
                \A i \in 1..Len(sales[id].items) :
                   /\ sales[id].items[i].unitPrice >= 0
                   /\ sales[id].items[i].total >= 0

\* C28: stock conservation.  While no completeSale call has failed on the
\* stock of an item (SpecStoreNoFailure), every state with no completeSale or
\* cancelSale in flight has, for each product, stock = initial stock - the
\* quantity of the product over all sales whose status is COMPLETED.
C28_StockConservation ==
    ( \A c \in Clients : pc[c] = "idle" ) =>
       \A p \in Products :
          stock[p] = SeedStock[p] -
             SumSeq([id \in 1..Len(sales) |->
                       IF sales[id].status = "COMPLETED"
                       THEN QuantityOf(sales[id].items, p) ELSE 0])

\* C29: when cancelSale calls for the same sale overlap, the quantities of the
\* sale are added back to the stock at most once: a call writes the return of
\* an item only if no other call in flight for the same sale has already
\* written the return of that item.
C29_ReturnedOnce ==
    [][\A c \in Clients :
          (pc[c] = "cn_write" /\ call'[c].idx = call[c].idx + 1 /\ stock' # stock) =>
             \A d \in Clients \ {c} :
                (pc[d] \in {"cn_read", "cn_write", "cn_final"}
                   /\ call[d].saleId = call[c].saleId)
                => call[d].idx <= call[c].idx]_vars

\* C30: in every state of the cart the sum of the payment amounts is at most
\* the grand total plus 0.001, also after an item was removed or a discount
\* was confirmed once payments had been entered.
C30_PaidWithinTotal ==
    \A c \in Clients : totalPaid(c) <= totalGeneral(c) + RoomTolerance

====
